---- MODULE Spec2Model ----
(***************************************************************************)
(* A model of chess-tools: the analysis (src/analyse_pgn_files.py) and the  *)
(* acquisition of the games (src/chesscom_pgn_export.py).                  *)
(*                                                                         *)
(*   SpecPure  the helpers applied to one input (classify_move,            *)
(*             get_eval_centipawns, convert_mate_to_centipawns,            *)
(*             calculate_move_accuracy, the parsing of the headers)        *)
(*   SpecGame  one pool worker running analyse_game over its tasks         *)
(*   Spec      analyse_all_games: the orchestrator, its worker pool, the   *)
(*             output file, kills and restarts                             *)
(*   SpecExport  export_games run again and again over one directory       *)
(***************************************************************************)
EXTENDS Integers, Sequences, FiniteSets, TLC

VARIABLES
    \* ---- SpecPure
    pfn,        \* the function under test
    parg,       \* its argument
    pres,       \* its result: NoneV before the call, Some(r) after
    \* ---- SpecGame: one pool worker and the game it analyses
    wTasks,                 \* the tasks still to come to this worker
    book_path,              \* analyse_game's book_path argument
    gpc,                    \* where the worker is in analyse_game
    gname,                  \* pgn_path.name of the game in hand
    hdr,                    \* the locals set from the headers (lines 229-278)
    gameLen,                \* number of mainline moves of the game
    book_reader,            \* "None", "open" or "closed"
    engine,                 \* "None", "running" or "quit"
    quit_calls,             \* calls of engine.quit() for the game in hand
    move_number,
    white_classifications,
    black_classifications,
    white_eval_pairs,
    black_eval_pairs,
    white_book_moves,
    black_book_moves,
    in_book,                \* whether the move of the ply in hand is a book move
    analyse_calls,          \* calls of engine.analyse() for the game in hand
    info_before,            \* the engine's latest answer at line 339, NoneV before it
    info_after,             \* the engine's latest answer at line 346, NoneV before it
    ret,                    \* what analyse_game returned: NoneV or Some(GameStats)
    raised,                 \* whether the except clause (402-404) handled an error
    stderr,                 \* the names of the games reported on sys.stderr
    nTaken,                 \* tasks this worker took
    nReturned,              \* results this worker handed back to the pool
    \* ---- Spec: analyse_all_games
    dir,                    \* names of the *.pgn files of the input directory
    outFile,                \* the output file: NoneV (absent) or Some(its text)
    cpu,                    \* mp.cpu_count()
    num_processes_arg,      \* the num_processes argument: NoneV or Some(n)
    pc,                     \* where analyse_all_games is; "idle": not running
    processed_files,        \* the Resume Set of the run
    pgn_files,              \* the filtered, sorted inputs of the run
    num_processes,          \* the pool size asked for
    tasks,                  \* tasks not yet taken by a worker
    inFlight,               \* names of the games the workers are analysing
    channel,                \* results of imap_unordered not yet collected
    results,                \* the results list of the run
    runs,                   \* runs started so far
    kills,                  \* runs killed so far
    lastRun,                \* how the latest run ended, "running" while it runs
    prevRun,                \* how the run before the latest one ended
    fileAtStart,            \* the output file when the latest run started
    fileAtKill,             \* the output file left by the latest kill
    \* ---- SpecExport: export_games
    xdir,                   \* the output directory: filename -> the file's text
    existing_files,         \* the names get_existing_files returned to the run
    xgames,                 \* the fetched games the run has still to go through
    xpc,                    \* "idle" or "loop"
    xruns                   \* runs of export_games started so far

pureVars == <<pfn, parg, pres>>

gameLocals == <<hdr, gameLen, book_reader, engine, quit_calls, move_number,
                white_classifications, black_classifications,
                white_eval_pairs, black_eval_pairs,
                white_book_moves, black_book_moves, in_book, analyse_calls,
                info_before, info_after>>

gameVars == <<wTasks, book_path, gpc, gname, gameLocals, ret, raised, stderr,
              nTaken, nReturned>>

orchVars == <<dir, outFile, cpu, num_processes_arg, pc, processed_files,
              pgn_files, num_processes, tasks, inFlight, channel, results,
              runs, kills, lastRun, prevRun, fileAtStart, fileAtKill>>

exportVars == <<xdir, existing_files, xgames, xpc, xruns>>

vars == <<pureVars, gameVars, orchVars, exportVars>>

notPureVars == <<gameVars, orchVars, exportVars>>
notGameVars == <<pureVars, orchVars, exportVars>>
notOrchVars == <<pureVars, gameVars, exportVars>>
notExportVars == <<pureVars, gameVars, orchVars>>

None == "None"

\* Optional values: NoneV is Python's None, Some(x) a value, Get(o) that value
NoneV   == <<>>
Some(x) == <<x>>
Get(o)  == o[1]

(***************************************************************************)
(* Bounds of the model.                                                    *)
(***************************************************************************)
MaxLoss == 130      \* centipawn losses 0..MaxLoss are classified
MaxMate == 12       \* mate distances -MaxMate..MaxMate are converted
MaxCp   == 40       \* centipawn scores -MaxCp..MaxCp pass through
MaxFiles == 2       \* game-record files that may be in the input directory
MaxGames == 2       \* tasks one worker is given in SpecGame
MaxPlies == 2       \* mainline moves of a game
MaxCpu   == 6       \* mp.cpu_count() is in 1..MaxCpu
MaxProcsArg == 1    \* a supplied num_processes is in 1..MaxProcsArg
MaxRuns  == 3       \* runs of analyse_all_games over the same files
MaxKills == 1       \* of which are killed
MaxWinPercent == 12 \* win percentages 0..MaxWinPercent go into calculate_move_accuracy
MaxFetched == 2     \* games one run of export_games fetches
MaxExportRuns == 2  \* runs of export_games over the same directory

Abs(x) == IF x < 0 THEN -x ELSE x
Max(a, b) == IF a >= b THEN a ELSE b
Min(a, b) == IF a <= b THEN a ELSE b

(***************************************************************************)
(* classify_move, lines 57-76.                                             *)
(***************************************************************************)
\* the thresholds taken as exclusive upper bounds
classify_move_strict(eval_loss) ==
    IF eval_loss < 10 THEN "best"
    ELSE IF eval_loss < 25 THEN "good"
    ELSE IF eval_loss < 50 THEN "inaccuracy"
    ELSE IF eval_loss < 100 THEN "mistake"
    ELSE "blunder"

\* lines 67-76
classify_move(eval_loss) ==
    IF eval_loss <= 10 THEN "best"
    ELSE IF eval_loss <= 25 THEN "good"
    ELSE IF eval_loss <= 50 THEN "inaccuracy"
    ELSE IF eval_loss <= 100 THEN "mistake"
    ELSE "blunder"

(***************************************************************************)
(* Engine scores.  python-chess reports a PovScore: a Score relative to    *)
(* the side to move.  A Score is Cp(v) or Mate(n).                         *)
(***************************************************************************)
Cp(v)   == [kind |-> "cp", v |-> v]
Mate(n) == [kind |-> "mate", v |-> n]

NegScore(s) == [s EXCEPT !.v = -s.v]

PovScore(relative, turn) == [relative |-> relative, turn |-> turn]

\* PovScore.white(): the score from White's point of view
white(pov) == IF pov.turn = "white" THEN pov.relative ELSE NegScore(pov.relative)

\* Score.mate(): the mate distance, None for a centipawn score
mate(score) == IF score.kind = "mate" THEN Some(score.v) ELSE NoneV

\* Score.score(): the centipawns, None for a mate score
score_cp(score) == IF score.kind = "cp" THEN Some(score.v) ELSE NoneV

\* every mate taken for the ceiling m, whatever its distance
score_mate_score_flat(score, m) ==
    IF score.kind = "cp" THEN score.v
    ELSE IF score.v > 0 THEN m
    ELSE -m

\* Score.score(mate_score=m), called at line 347: the centipawns of a
\* centipawn score, m - n for a mate in n, -m + n for being mated in n
score_mate_score(score, m) ==
    IF score.kind = "cp" THEN score.v
    ELSE IF score.v > 0 THEN m - score.v
    ELSE -m - score.v

(***************************************************************************)
(* convert_mate_to_centipawns, lines 135-161.                              *)
(***************************************************************************)
\* the mate value without the sign of the mating side
convert_mate_unsigned(score, mate_distance) ==
    IF mate_distance = NoneV THEN Get(score_cp(score))
    ELSE 10000 - Abs(Get(mate_distance)) * 50

\* lines 147-161
convert_mate_to_centipawns(score, mate_distance) ==
    IF mate_distance = NoneV
    THEN Get(score_cp(score))
    ELSE LET base_mate_value  == 10000
             distance_penalty == Abs(Get(mate_distance)) * 50
             mate_value       == base_mate_value - distance_penalty
         IN  IF Get(mate_distance) > 0 THEN mate_value ELSE -mate_value

(***************************************************************************)
(* get_eval_centipawns, lines 164-176.  info is the engine's answer; its   *)
(* score field is a PovScore.                                              *)
(***************************************************************************)
get_eval_centipawns(info) ==
    LET score == white(info.score)
        m     == mate(score)
    IN  IF m # NoneV THEN convert_mate_to_centipawns(score, m)
        ELSE Get(score_cp(score))

(***************************************************************************)
(* calculate_move_accuracy, lines 92-105, in fixed point.  A win           *)
(* percentage is a whole number of percent; an accuracy, and a value of    *)
(* exp, is a whole number of 1/10000: 1000000 is 100.0, 999999 is 99.9999. *)
(***************************************************************************)
\* math.exp(x), x given in 1/100000: the Taylor series 1 + x + x^2/2! + ...
\* term by term, each term in 1/10000
RECURSIVE exp_terms(_, _, _)
exp_terms(x, term, k) ==
    IF k > 9 \/ term = 0 THEN 0
    ELSE term + exp_terms(x, (term * x) \div (100000 * k), k + 1)

exp(x) == exp_terms(x, 10000, 1)

\* lines 103-104: 103.1668 * math.exp(-0.04354 * win_percent_loss) - 3.1669
raw_move_accuracy(win_percent_before, win_percent_after) ==
    LET win_percent_loss == win_percent_before - win_percent_after
        e == exp(-4354 * win_percent_loss)
    IN  103 * e + (1668 * e) \div 10000 - 31669

\* lines 103-105
calculate_move_accuracy(win_percent_before, win_percent_after) ==
    Max(0, Min(1000000, raw_move_accuracy(win_percent_before, win_percent_after)))

(***************************************************************************)
(* Names of game-record files.  The exporter names a file                  *)
(* <date>_<white>_vs_<black>.pgn (chesscom_pgn_export.py, 141-143): a name *)
(* neither starts nor ends with whitespace.                                *)
(***************************************************************************)
NameList == <<"a.pgn", "b.pgn", "c.pgn", "d.pgn", "e.pgn", "f.pgn">>

FileNames == { NameList[k] : k \in 1 .. MaxFiles }

(***************************************************************************)
(* GameStats, lines 28-54.  An accuracy is kept as the term it is the      *)
(* rounded mean of: the list of evaluation pairs.  calculate_accuracy      *)
(* (108-132) returns 0.0 for the empty list, so the empty list is 0.       *)
(***************************************************************************)
Classes == {"best", "good", "inaccuracy", "mistake", "blunder"}

NoCounts == [c \in Classes |-> 0]

AccuracyZero == [mean_accuracy_of |-> <<>>]

calculate_accuracy(eval_pairs) == [mean_accuracy_of |-> eval_pairs]

IsZeroAccuracy(a) == a = AccuracyZero

\* a placeholder that does not carry the file's name
Placeholder_anon(name) ==
    [filename |-> "", white_player |-> "", black_player |-> "",
     white_elo |-> 0, black_elo |-> 0,
     time_control |-> "unknown", opening |-> "unknown", result |-> 0,
     white_accuracy |-> AccuracyZero,
     white_best_moves |-> 0, white_good_moves |-> 0, white_inaccuracies |-> 0,
     white_mistakes |-> 0, white_blunders |-> 0, white_book_moves |-> 0,
     white_total_moves |-> 0,
     black_accuracy |-> AccuracyZero,
     black_best_moves |-> 0, black_good_moves |-> 0, black_inaccuracies |-> 0,
     black_mistakes |-> 0, black_blunders |-> 0, black_book_moves |-> 0,
     black_total_moves |-> 0]

\* GameStats(pgn_path.name, "", "", 0, 0, "unknown", "unknown", 0, 0, ... 0),
\* lines 227 and 404
Placeholder(name) ==
    [filename |-> name, white_player |-> "", black_player |-> "",
     white_elo |-> 0, black_elo |-> 0,
     time_control |-> "unknown", opening |-> "unknown", result |-> 0,
     white_accuracy |-> AccuracyZero,
     white_best_moves |-> 0, white_good_moves |-> 0, white_inaccuracies |-> 0,
     white_mistakes |-> 0, white_blunders |-> 0, white_book_moves |-> 0,
     white_total_moves |-> 0,
     black_accuracy |-> AccuracyZero,
     black_best_moves |-> 0, black_good_moves |-> 0, black_inaccuracies |-> 0,
     black_mistakes |-> 0, black_blunders |-> 0, black_book_moves |-> 0,
     black_total_moves |-> 0]

(***************************************************************************)
(* The headers of a game record.  A header is NoneV (absent) or Some of    *)
(* its text; the TimeControl text is a sequence of tokens, a numeral being *)
(* one token.  chess.pgn.read_game always supplies White, Black and Result *)
(* (its tag roster defaults them to "?", "?" and "*").                     *)
(***************************************************************************)
HeaderChoices ==
    { [White |-> Some("alice"), Black |-> Some("bob"), Result |-> Some("1-0"),
       ECO |-> Some("C20"), WhiteElo |-> Some("1500"), BlackElo |-> Some("1820"),
       TimeControl |-> Some(<<"600", "+", "5">>)],
      [White |-> Some("?"), Black |-> Some("carol"), Result |-> Some("*"),
       ECO |-> NoneV, WhiteElo |-> Some("1500"), BlackElo |-> Some("?"),
       TimeControl |-> NoneV] }

headers_get(headers, key, default) ==
    IF headers[key] = NoneV THEN default ELSE Get(headers[key])

\* The numerals the model's texts use, and int() on a text: ValueError is NoneV
IntLiterals ==
    ("0" :> 0) @@ ("1" :> 1) @@ ("5" :> 5) @@ ("60" :> 60) @@ ("179" :> 179)
    @@ ("180" :> 180) @@ ("300" :> 300) @@ ("301" :> 301) @@ ("600" :> 600)
    @@ ("3600" :> 3600) @@ ("3601" :> 3601) @@ ("86400" :> 86400)
    @@ ("1500" :> 1500) @@ ("1820" :> 1820) @@ ("-5" :> -5)

py_int(text) ==
    IF text \in DOMAIN IntLiterals THEN Some(IntLiterals[text]) ELSE NoneV

\* lines 233-242
result_of(headers) ==
    LET result_str == headers_get(headers, "Result", "*")
    IN  IF result_str = "1-0" THEN 1
        ELSE IF result_str = "0-1" THEN -1
        ELSE IF result_str = "1/2-1/2" THEN 0
        ELSE 0

\* lines 247-255: both conversions sit in one try block
elos_of(headers) ==
    LET w == py_int(headers_get(headers, "WhiteElo", "0"))
        b == py_int(headers_get(headers, "BlackElo", "0"))
    IN  IF w = NoneV \/ b = NoneV
        THEN [white_elo |-> 0, black_elo |-> 0]
        ELSE [white_elo |-> Get(w), black_elo |-> Get(b)]

\* tc.split("+")[0]: the tokens before the first "+"
RECURSIVE BeforePlus(_)
BeforePlus(tc) ==
    IF tc = <<>> \/ Head(tc) = "+" THEN <<>>
    ELSE <<Head(tc)>> \o BeforePlus(Tail(tc))

\* the five-minute boundary taken as exclusive
time_control_of_strict(headers) ==
    LET tc == headers_get(headers, "TimeControl", <<>>)
    IN  IF tc # <<>> /\ tc # <<"-">>
        THEN IF \E k \in DOMAIN tc : tc[k] = "/"
             THEN "daily"
             ELSE LET base == BeforePlus(tc)
                      base_time == IF Len(base) = 1 THEN py_int(base[1]) ELSE NoneV
                  IN  IF base_time = NoneV THEN "unknown"
                      ELSE IF Get(base_time) < 180 THEN "bullet"
                      ELSE IF Get(base_time) < 300 THEN "blitz"
                      ELSE IF Get(base_time) <= 3600 THEN "rapid"
                      ELSE "classical"
        ELSE "unknown"

\* lines 257-278
time_control_of(headers) ==
    LET tc == headers_get(headers, "TimeControl", <<>>)
    IN  IF tc # <<>> /\ tc # <<"-">>
        THEN IF \E k \in DOMAIN tc : tc[k] = "/"
             THEN "daily"
             ELSE LET base == BeforePlus(tc)
                      base_time == IF Len(base) = 1 THEN py_int(base[1]) ELSE NoneV
                  IN  IF base_time = NoneV THEN "unknown"
                      ELSE IF Get(base_time) < 180 THEN "bullet"
                      ELSE IF Get(base_time) <= 300 THEN "blitz"
                      ELSE IF Get(base_time) <= 3600 THEN "rapid"
                      ELSE "classical"
        ELSE "unknown"

\* lines 229-278
parse_headers(headers) ==
    [white_player |-> headers_get(headers, "White", "unknown"),
     black_player |-> headers_get(headers, "Black", "unknown"),
     result       |-> result_of(headers),
     opening      |-> headers_get(headers, "ECO", "unknown"),
     white_elo    |-> elos_of(headers).white_elo,
     black_elo    |-> elos_of(headers).black_elo,
     time_control |-> time_control_of(headers)]

(***************************************************************************)
(* SpecPure: one helper applied to one input.                              *)
(***************************************************************************)
Turns == {"white", "black"}

\* header texts that game records carry: a rating, "?" for an unrated
\* player, and the time controls around the class boundaries
EloTexts == {NoneV, Some("1500"), Some("1820"), Some("?"), Some("")}

TimeControlTexts ==
    {NoneV, Some(<<>>), Some(<<"-">>), Some(<<"1", "/", "86400">>),
     Some(<<"60">>), Some(<<"179">>), Some(<<"180">>), Some(<<"300">>),
     Some(<<"301">>), Some(<<"600", "+", "5">>), Some(<<"3600">>),
     Some(<<"3601">>), Some(<<"abc">>), Some(<<"+", "5">>), Some(<<"-5">>)}

PureHeaders ==
    { [White |-> Some("alice"), Black |-> Some("bob"), Result |-> Some("1-0"),
       ECO |-> Some("C20"), WhiteElo |-> w, BlackElo |-> b, TimeControl |-> tc] :
      w \in EloTexts, b \in EloTexts, tc \in TimeControlTexts }

PureInputs(fn) ==
    CASE fn = "classify_move" -> 0 .. MaxLoss
      [] fn = "get_eval_centipawns" ->
            { PovScore(Mate(n), t) : n \in (-MaxMate .. MaxMate) \ {0}, t \in Turns }
            \cup { PovScore(Cp(v), t) : v \in -MaxCp .. MaxCp, t \in Turns }
      [] fn = "calculate_move_accuracy" ->
            (0 .. MaxWinPercent) \X (0 .. MaxWinPercent)
      [] fn = "parse_headers" -> PureHeaders

PureFns ==
    {"classify_move", "get_eval_centipawns", "calculate_move_accuracy",
     "parse_headers"}

PureIdle == pfn = None /\ parg = None /\ pres = NoneV

PureInit ==
    /\ pfn \in PureFns
    /\ parg \in PureInputs(pfn)
    /\ pres = NoneV

ApplyClassify ==
    /\ pfn = "classify_move"
    /\ pres = NoneV
    /\ pres' = Some(classify_move(parg))
    /\ UNCHANGED <<pfn, parg>>
    /\ UNCHANGED notPureVars

ApplyEval ==
    /\ pfn = "get_eval_centipawns"
    /\ pres = NoneV
    /\ pres' = Some(get_eval_centipawns([score |-> parg]))
    /\ UNCHANGED <<pfn, parg>>
    /\ UNCHANGED notPureVars

ApplyMoveAccuracy ==
    /\ pfn = "calculate_move_accuracy"
    /\ pres = NoneV
    /\ pres' = Some(calculate_move_accuracy(parg[1], parg[2]))
    /\ UNCHANGED <<pfn, parg>>
    /\ UNCHANGED notPureVars

\* lines 229-278 on the headers of one game
ApplyParseHeaders ==
    /\ pfn = "parse_headers"
    /\ pres = NoneV
    /\ pres' = Some(parse_headers(parg))
    /\ UNCHANGED <<pfn, parg>>
    /\ UNCHANGED notPureVars

PureNext == ApplyClassify \/ ApplyEval \/ ApplyMoveAccuracy \/ ApplyParseHeaders

(***************************************************************************)
(* The engine's answers: scores relative to the side to move.              *)
(***************************************************************************)
\* Cp(20) and Mate(1) are there with their negations, so that the position
\* after a move can have the score the position before it had.
EngineScores == { Cp(-20), Cp(20), Mate(1), Mate(-1), Mate(-2) }

OtherTurn(t) == IF t = "white" THEN "black" ELSE "white"

\* what the book's find_all does for the position: the played move is among
\* the entries, is not, IndexError, or another error
BookLookups == {"hit", "miss", "IndexError", "error"}

BookPaths == {"None", "ok", "missing", "unreadable"}

\* a book move counted for White whichever colour played it
book_counts_white_only(is_white_move, w, b) == <<w + 1, b>>

\* a book move counted for the colour that did not play it
book_counts_swapped(is_white_move, w, b) ==
    IF is_white_move THEN <<w, b + 1>> ELSE <<w + 1, b>>

\* lines 330-333
book_counts(is_white_move, w, b) ==
    IF is_white_move THEN <<w + 1, b>> ELSE <<w, b + 1>>

\* the loss taken from White's side whoever moved
eval_loss_white_side(is_white_move, eval_before, eval_after) ==
    Max(0, eval_before - eval_after)

\* lines 349-355
eval_loss_of(is_white_move, eval_before, eval_after) ==
    Max(0, IF is_white_move THEN eval_before - eval_after
                            ELSE eval_after - eval_before)

\* lines 375-400
make_stats(name, h, wc, bc, wp, bp, wb, bb) ==
    [filename |-> name, white_player |-> h.white_player,
     black_player |-> h.black_player,
     white_elo |-> h.white_elo, black_elo |-> h.black_elo,
     time_control |-> h.time_control, opening |-> h.opening,
     result |-> h.result,
     white_accuracy |-> calculate_accuracy(wp),
     white_best_moves |-> wc["best"], white_good_moves |-> wc["good"],
     white_inaccuracies |-> wc["inaccuracy"], white_mistakes |-> wc["mistake"],
     white_blunders |-> wc["blunder"], white_book_moves |-> wb,
     white_total_moves |-> Len(wp) + wb,
     black_accuracy |-> calculate_accuracy(bp),
     black_best_moves |-> bc["best"], black_good_moves |-> bc["good"],
     black_inaccuracies |-> bc["inaccuracy"], black_mistakes |-> bc["mistake"],
     black_blunders |-> bc["blunder"], black_book_moves |-> bb,
     black_total_moves |-> Len(bp) + bb]

(***************************************************************************)
(* SpecGame: a pool worker calls analyse_game_wrapper on one task after    *)
(* another.                                                                *)
(***************************************************************************)
FreshLocals ==
    /\ hdr' = NoneV
    /\ gameLen' = 0
    /\ book_reader' = "None"
    /\ engine' = "None"
    /\ quit_calls' = 0
    /\ move_number' = 0
    /\ white_classifications' = NoCounts
    /\ black_classifications' = NoCounts
    /\ white_eval_pairs' = <<>>
    /\ black_eval_pairs' = <<>>
    /\ white_book_moves' = 0
    /\ black_book_moves' = 0
    /\ in_book' = FALSE
    /\ analyse_calls' = 0
    /\ info_before' = NoneV
    /\ info_after' = NoneV

GameIdle ==
    /\ wTasks = <<>>
    /\ book_path = "None"
    /\ gpc = "idle"
    /\ gname = ""
    /\ hdr = NoneV
    /\ gameLen = 0
    /\ book_reader = "None"
    /\ engine = "None"
    /\ quit_calls = 0
    /\ move_number = 0
    /\ white_classifications = NoCounts
    /\ black_classifications = NoCounts
    /\ white_eval_pairs = <<>>
    /\ black_eval_pairs = <<>>
    /\ white_book_moves = 0
    /\ black_book_moves = 0
    /\ in_book = FALSE
    /\ analyse_calls = 0
    /\ info_before = NoneV
    /\ info_after = NoneV
    /\ ret = NoneV
    /\ raised = FALSE
    /\ stderr = {}
    /\ nTaken = 0
    /\ nReturned = 0

GameInit ==
    /\ wTasks = SubSeq(NameList, 1, MaxGames)
    /\ book_path \in BookPaths
    /\ gpc = "idle"
    /\ gname = ""
    /\ hdr = NoneV
    /\ gameLen = 0
    /\ book_reader = "None"
    /\ engine = "None"
    /\ quit_calls = 0
    /\ move_number = 0
    /\ white_classifications = NoCounts
    /\ black_classifications = NoCounts
    /\ white_eval_pairs = <<>>
    /\ black_eval_pairs = <<>>
    /\ white_book_moves = 0
    /\ black_book_moves = 0
    /\ in_book = FALSE
    /\ analyse_calls = 0
    /\ info_before = NoneV
    /\ info_after = NoneV
    /\ ret = NoneV
    /\ raised = FALSE
    /\ stderr = {}
    /\ nTaken = 0
    /\ nReturned = 0

\* analyse_game_wrapper, lines 407-410: the worker takes its next task
TakeTask ==
    /\ gpc = "idle"
    /\ wTasks # <<>>
    /\ gname' = Head(wTasks)
    /\ wTasks' = Tail(wTasks)
    /\ nTaken' = nTaken + 1
    /\ gpc' = "read"
    /\ ret' = NoneV
    /\ raised' = FALSE
    /\ FreshLocals
    /\ UNCHANGED <<book_path, stderr, nReturned>>
    /\ UNCHANGED notGameVars

\* lines 402-404: the except clause
Except ==
    /\ stderr' = stderr \cup {gname}
    /\ ret' = Some(Placeholder(gname))
    /\ raised' = TRUE
    /\ gpc' = "returned"

\* lines 221-278: read the game and its headers
ReadGame ==
    /\ gpc = "read"
    /\ \/ \* open() or the read raises
          /\ Except
          /\ UNCHANGED <<gameLocals>>
       \/ \* no game in the file: line 227
          /\ ret' = Some(Placeholder(gname))
          /\ gpc' = "returned"
          /\ UNCHANGED <<gameLocals, raised, stderr>>
       \/ \E headers \in HeaderChoices, n \in 0 .. MaxPlies :
          /\ hdr' = Some(parse_headers(headers))
          /\ gameLen' = n
          /\ gpc' = "book"
          /\ UNCHANGED <<book_reader, engine, quit_calls, move_number,
                         white_classifications, black_classifications,
                         white_eval_pairs, black_eval_pairs,
                         white_book_moves, black_book_moves,
                         in_book, analyse_calls, info_before, info_after,
                         ret, raised, stderr>>
    /\ UNCHANGED <<wTasks, book_path, gname, nTaken, nReturned>>
    /\ UNCHANGED notGameVars

\* lines 280-283: open the opening book
OpenBook ==
    /\ gpc = "book"
    /\ \/ /\ book_path \in {"None", "missing"}
          /\ gpc' = "engine"
          /\ UNCHANGED <<gameLocals, ret, raised, stderr>>
       \/ /\ book_path = "ok"
          /\ book_reader' = "open"
          /\ gpc' = "engine"
          /\ UNCHANGED <<hdr, gameLen, engine, quit_calls, move_number,
                         white_classifications, black_classifications,
                         white_eval_pairs, black_eval_pairs,
                         white_book_moves, black_book_moves,
                         in_book, analyse_calls, info_before, info_after,
                         ret, raised, stderr>>
       \/ /\ book_path = "unreadable"
          /\ Except
          /\ UNCHANGED <<gameLocals>>
    /\ UNCHANGED <<wTasks, book_path, gname, nTaken, nReturned>>
    /\ UNCHANGED notGameVars

\* lines 285-310: start the engine
StartEngine ==
    /\ gpc = "engine"
    /\ \/ /\ engine' = "running"
          /\ gpc' = "loop"
          /\ UNCHANGED <<hdr, gameLen, book_reader, quit_calls, move_number,
                         white_classifications, black_classifications,
                         white_eval_pairs, black_eval_pairs,
                         white_book_moves, black_book_moves,
                         in_book, analyse_calls, info_before, info_after,
                         ret, raised, stderr>>
       \/ \* popen_uci raises
          /\ Except
          /\ UNCHANGED <<gameLocals>>
    /\ UNCHANGED <<wTasks, book_path, gname, nTaken, nReturned>>
    /\ UNCHANGED notGameVars

\* lines 312-365: one iteration of the move loop
Ply ==
    /\ gpc = "loop"
    /\ move_number < gameLen
    /\ move_number' = move_number + 1
    /\ LET is_white_move == (move_number + 1) % 2 = 1
           turn == IF is_white_move THEN "white" ELSE "black"
       IN  \E lookup \in (IF book_reader = "open" THEN BookLookups ELSE {"miss"}) :
           \/ \* the book lookup raises something other than IndexError
              /\ lookup = "error"
              /\ in_book' = FALSE
              /\ Except
              /\ UNCHANGED <<white_classifications, black_classifications,
                             white_eval_pairs, black_eval_pairs,
                             white_book_moves, black_book_moves, analyse_calls,
                             info_before, info_after>>
           \/ \* lines 329-335
              /\ lookup = "hit"
              /\ in_book' = TRUE
              /\ white_book_moves' =
                    book_counts(is_white_move, white_book_moves, black_book_moves)[1]
              /\ black_book_moves' =
                    book_counts(is_white_move, white_book_moves, black_book_moves)[2]
              /\ UNCHANGED <<white_classifications, black_classifications,
                             white_eval_pairs, black_eval_pairs,
                             analyse_calls, info_before, info_after,
                             gpc, ret, raised, stderr>>
           \/ \* line 339 raises
              /\ lookup \in {"miss", "IndexError"}
              /\ in_book' = FALSE
              /\ analyse_calls' = analyse_calls + 1
              /\ Except
              /\ UNCHANGED <<white_classifications, black_classifications,
                             white_eval_pairs, black_eval_pairs,
                             white_book_moves, black_book_moves,
                             info_before, info_after>>
           \/ \* line 346 raises
              /\ lookup \in {"miss", "IndexError"}
              /\ in_book' = FALSE
              /\ analyse_calls' = analyse_calls + 2
              /\ \E before \in EngineScores :
                    /\ info_before' = Some([score |-> PovScore(before, turn)])
                    /\ Except
                    /\ UNCHANGED <<white_classifications, black_classifications,
                                   white_eval_pairs, black_eval_pairs,
                                   white_book_moves, black_book_moves,
                                   info_after>>
           \/ \* lines 337-365
              /\ lookup \in {"miss", "IndexError"}
              /\ \E before \in EngineScores, after \in EngineScores :
                 LET new_before  == [score |-> PovScore(before, turn)]
                     new_after   == [score |-> PovScore(after, OtherTurn(turn))]
                     eval_before == get_eval_centipawns(new_before)
                     eval_after  == score_mate_score(white(new_after.score), 10000)
                     eval_loss   == eval_loss_of(is_white_move, eval_before, eval_after)
                     classification == classify_move(eval_loss)
                 IN  /\ IF is_white_move
                        THEN /\ white_eval_pairs' =
                                   Append(white_eval_pairs, <<eval_before, eval_after>>)
                             /\ white_classifications' =
                                   [white_classifications EXCEPT ![classification] = @ + 1]
                             /\ UNCHANGED <<black_eval_pairs, black_classifications>>
                        ELSE /\ black_eval_pairs' =
                                   Append(black_eval_pairs, <<-eval_before, -eval_after>>)
                             /\ black_classifications' =
                                   [black_classifications EXCEPT ![classification] = @ + 1]
                             /\ UNCHANGED <<white_eval_pairs, white_classifications>>
                     /\ in_book' = FALSE
                     /\ analyse_calls' = analyse_calls + 2
                     /\ info_before' = Some(new_before)
                     /\ info_after' = Some(new_after)
                     /\ UNCHANGED <<white_book_moves, black_book_moves,
                                    gpc, ret, raised, stderr>>
    /\ UNCHANGED <<wTasks, book_path, gname, nTaken, nReturned,
                   hdr, gameLen, book_reader, engine, quit_calls>>
    /\ UNCHANGED notGameVars

\* lines 367-400: the loop is over
Finish ==
    /\ gpc = "loop"
    /\ move_number = gameLen
    /\ engine' = "quit"
    /\ quit_calls' = quit_calls + 1
    /\ book_reader' = IF book_reader = "open" THEN "closed" ELSE book_reader
    /\ ret' = Some(make_stats(gname, Get(hdr),
                              white_classifications, black_classifications,
                              white_eval_pairs, black_eval_pairs,
                              white_book_moves, black_book_moves))
    /\ gpc' = "returned"
    /\ UNCHANGED <<wTasks, book_path, gname, nTaken, nReturned, raised, stderr,
                   hdr, gameLen, move_number,
                   white_classifications, black_classifications,
                   white_eval_pairs, black_eval_pairs,
                   white_book_moves, black_book_moves, in_book, analyse_calls,
                   info_before, info_after>>
    /\ UNCHANGED notGameVars

\* line 410: the wrapper returns the GameStats to the pool
Deliver ==
    /\ gpc = "returned"
    /\ nReturned' = nReturned + 1
    /\ gpc' = "idle"
    /\ UNCHANGED <<wTasks, book_path, gname, gameLocals, ret, raised, stderr, nTaken>>
    /\ UNCHANGED notGameVars

GameNext ==
    \/ TakeTask \/ ReadGame \/ OpenBook \/ StartEngine \/ Ply \/ Finish \/ Deliver

(***************************************************************************)
(* The output file is a text: a sequence of tokens.  A filename, a tab, a  *)
(* line feed and the other 23 columns of a row are one token each, so a    *)
(* write cut short by a kill leaves a prefix of the tokens.                *)
(***************************************************************************)
TAB == "\t"
NL  == "\n"
Whitespace == {" ", TAB, NL}

\* lines 484-488
HeaderLine ==
    <<"filename", TAB,
      "white_player..black_total_moves", NL>>

\* lines 499-506: the f-string of one row
Row(stats) ==
    <<stats.filename, TAB,
      ToString(<<stats.white_player, stats.black_player, stats.white_elo,
                 stats.black_elo, stats.time_control, stats.opening,
                 stats.result, stats.white_accuracy, stats.white_best_moves,
                 stats.white_good_moves, stats.white_inaccuracies,
                 stats.white_mistakes, stats.white_blunders,
                 stats.white_book_moves, stats.white_total_moves,
                 stats.black_accuracy, stats.black_best_moves,
                 stats.black_good_moves, stats.black_inaccuracies,
                 stats.black_mistakes, stats.black_blunders,
                 stats.black_book_moves, stats.black_total_moves>>),
      NL>>

\* open(output_file, 'a'); f.write(text)
AppendText(file, text) ==
    IF file = NoneV THEN Some(text) ELSE Some(Get(file) \o text)

\* iterating a text file: the lines, each with its line feed; the last line
\* may lack one
RECURSIVE SplitLines(_)
SplitLines(text) ==
    IF text = <<>> THEN <<>>
    ELSE IF \E k \in DOMAIN text : text[k] = NL
         THEN LET k == CHOOSE k \in DOMAIN text :
                          text[k] = NL /\ \A j \in 1 .. k - 1 : text[j] # NL
              IN  <<SubSeq(text, 1, k)>> \o SplitLines(SubSeq(text, k + 1, Len(text)))
         ELSE <<text>>

\* line.split('\t')[0]
RECURSIVE BeforeTab(_)
BeforeTab(line) ==
    IF line = <<>> \/ Head(line) = TAB THEN <<>>
    ELSE <<Head(line)>> \o BeforeTab(Tail(line))

\* str.strip()
RECURSIVE Strip(_)
Strip(text) ==
    IF text = <<>> THEN <<>>
    ELSE IF Head(text) \in Whitespace THEN Strip(Tail(text))
    ELSE IF text[Len(text)] \in Whitespace THEN Strip(SubSeq(text, 1, Len(text) - 1))
    ELSE text

\* load_processed_files, lines 179-205.  next(f) on an empty file raises
\* StopIteration, which the except clause turns into a warning.
load_processed_files(file) ==
    IF file = NoneV THEN {}
    ELSE LET lines == SplitLines(Get(file))
         IN  IF lines = <<>> THEN {}
             ELSE { Strip(BeforeTab(lines[k])) : k \in 2 .. Len(lines) } \ {<<>>}

\* sorted(pgn_path.glob("*.pgn")), line 441.  glob yields nothing for a
\* directory that does not exist, so a missing directory is dir = {}.
sorted(names) == SelectSeq(NameList, LAMBDA n : n \in names)

\* the inputs taken as they are, the Resume Set ignored
filter_none(all_pgn_files, processed) == all_pgn_files

\* line 453
filter_processed(all_pgn_files, processed) ==
    SelectSeq(all_pgn_files, LAMBDA n : <<n>> \notin processed)

\* lines 471-472
default_num_processes(arg, cpus) ==
    IF arg = NoneV THEN cpus - 4 ELSE Get(arg)

\* What analyse_game may return for a file (SpecGame): the placeholder or
\* the statistics of its game
SampleHeaders ==
    [White |-> Some("alice"), Black |-> Some("bob"), Result |-> Some("1-0"),
     ECO |-> Some("C20"), WhiteElo |-> Some("1500"), BlackElo |-> Some("1820"),
     TimeControl |-> Some(<<"600", "+", "5">>)]

analyse_outcomes(name) ==
    { Placeholder(name),
      make_stats(name, parse_headers(SampleHeaders),
                 [NoCounts EXCEPT !["best"] = 1], NoCounts,
                 <<<<20, 15>>>>, <<>>, 0, 1) }

(***************************************************************************)
(* Spec: analyse_all_games, its pool and the processes around it.          *)
(***************************************************************************)
OrchIdle ==
    /\ dir = {}
    /\ outFile = NoneV
    /\ cpu = 1
    /\ num_processes_arg = NoneV
    /\ pc = "idle"
    /\ processed_files = {}
    /\ pgn_files = <<>>
    /\ num_processes = 0
    /\ tasks = <<>>
    /\ inFlight = {}
    /\ channel = <<>>
    /\ results = <<>>
    /\ runs = 0
    /\ kills = 0
    /\ lastRun = "none"
    /\ prevRun = "none"
    /\ fileAtStart = NoneV
    /\ fileAtKill = NoneV

OrchInit ==
    /\ dir \in SUBSET FileNames
    /\ outFile \in {NoneV, Some(<<>>)}
    /\ cpu \in 1 .. MaxCpu
    /\ num_processes_arg \in {NoneV} \cup { Some(n) : n \in 1 .. MaxProcsArg }
    /\ pc = "idle"
    /\ processed_files = {}
    /\ pgn_files = <<>>
    /\ num_processes = 0
    /\ tasks = <<>>
    /\ inFlight = {}
    /\ channel = <<>>
    /\ results = <<>>
    /\ runs = 0
    /\ kills = 0
    /\ lastRun = "none"
    /\ prevRun = "none"
    /\ fileAtStart = NoneV
    /\ fileAtKill = NoneV

\* lines 432-478: the run starts; it returns at once when there is nothing
\* to analyse
StartRun ==
    /\ pc = "idle"
    /\ runs < MaxRuns
    /\ runs' = runs + 1
    /\ prevRun' = lastRun
    /\ fileAtStart' = outFile
    /\ tasks' = <<>>
    /\ inFlight' = {}
    /\ channel' = <<>>
    /\ results' = <<>>
    /\ LET all_pgn_files == sorted(dir)
           processed == load_processed_files(outFile)
           remaining == filter_processed(all_pgn_files, processed)
       IN  IF all_pgn_files = <<>>
           THEN /\ lastRun' = "no_files"
                /\ pc' = "idle"
                /\ processed_files' = {}
                /\ pgn_files' = <<>>
                /\ num_processes' = 0
           ELSE IF remaining = <<>>
           THEN /\ lastRun' = "nothing_to_do"
                /\ pc' = "idle"
                /\ processed_files' = processed
                /\ pgn_files' = remaining
                /\ num_processes' = 0
           ELSE /\ lastRun' = "running"
                /\ pc' = "header"
                /\ processed_files' = processed
                /\ pgn_files' = remaining
                /\ num_processes' = default_num_processes(num_processes_arg, cpu)
    /\ UNCHANGED <<dir, outFile, cpu, num_processes_arg, kills, fileAtKill>>
    /\ UNCHANGED notOrchVars

\* lines 480-488: the header, when the file does not exist
WriteHeader ==
    /\ pc = "header"
    /\ outFile' = IF outFile = NoneV THEN Some(HeaderLine) ELSE outFile
    /\ pc' = "pool"
    /\ UNCHANGED <<dir, cpu, num_processes_arg, processed_files, pgn_files,
                   num_processes, tasks, inFlight, channel, results, runs, kills,
                   lastRun, prevRun, fileAtStart, fileAtKill>>
    /\ UNCHANGED notOrchVars

\* line 492: mp.Pool(processes=num_processes) raises ValueError when
\* num_processes < 1, and analyse_all_games ends with that exception
CreatePool ==
    /\ pc = "pool"
    /\ IF num_processes < 1
       THEN /\ pc' = "idle"
            /\ lastRun' = "crashed"
            /\ tasks' = <<>>
       ELSE /\ pc' = "collect"
            /\ lastRun' = lastRun
            /\ tasks' = pgn_files
    /\ UNCHANGED <<dir, outFile, cpu, num_processes_arg, processed_files,
                   pgn_files, num_processes, inFlight, channel, results, runs,
                   kills, prevRun, fileAtStart, fileAtKill>>
    /\ UNCHANGED notOrchVars

\* a free worker of the pool takes the next task
WorkerTake ==
    /\ pc = "collect"
    /\ tasks # <<>>
    /\ Cardinality(inFlight) < num_processes
    /\ inFlight' = inFlight \cup {Head(tasks)}
    /\ tasks' = Tail(tasks)
    /\ UNCHANGED <<dir, outFile, cpu, num_processes_arg, pc, processed_files,
                   pgn_files, num_processes, channel, results, runs, kills,
                   lastRun, prevRun, fileAtStart, fileAtKill>>
    /\ UNCHANGED notOrchVars

\* a worker that appends the row of its result to the output file itself
WorkerReturnWritesRow(name, stats) ==
    /\ pc = "collect"
    /\ name \in inFlight
    /\ inFlight' = inFlight \ {name}
    /\ channel' = Append(channel, stats)
    /\ outFile' = AppendText(outFile, Row(stats))
    /\ UNCHANGED <<dir, cpu, num_processes_arg, pc, processed_files,
                   pgn_files, num_processes, tasks, results, runs, kills,
                   lastRun, prevRun, fileAtStart, fileAtKill>>
    /\ UNCHANGED notOrchVars

\* analyse_game_wrapper, lines 407-410: a worker's analyse_game returns and
\* the GameStats goes back to the orchestrator
WorkerReturn(name, stats) ==
    /\ pc = "collect"
    /\ name \in inFlight
    /\ inFlight' = inFlight \ {name}
    /\ channel' = Append(channel, stats)
    /\ UNCHANGED <<dir, outFile, cpu, num_processes_arg, pc, processed_files,
                   pgn_files, num_processes, tasks, results, runs, kills,
                   lastRun, prevRun, fileAtStart, fileAtKill>>
    /\ UNCHANGED notOrchVars

WorkerDone == \E name \in FileNames : \E stats \in analyse_outcomes(name) :
                  WorkerReturn(name, stats)

\* lines 494-506: the orchestrator takes the next result and appends its row
Collect ==
    /\ pc = "collect"
    /\ channel # <<>>
    /\ results' = Append(results, Head(channel))
    /\ outFile' = AppendText(outFile, Row(Head(channel)))
    /\ channel' = Tail(channel)
    /\ UNCHANGED <<dir, cpu, num_processes_arg, pc, processed_files,
                   pgn_files, num_processes, tasks, inFlight, runs, kills,
                   lastRun, prevRun, fileAtStart, fileAtKill>>
    /\ UNCHANGED notOrchVars

\* lines 494, 512: every result is in, the pool is closed, the run returns
FinishRun ==
    /\ pc = "collect"
    /\ Len(results) = Len(pgn_files)
    /\ pc' = "idle"
    /\ lastRun' = "complete"
    /\ UNCHANGED <<dir, outFile, cpu, num_processes_arg, processed_files,
                   pgn_files, num_processes, tasks, inFlight, channel, results,
                   runs, kills, prevRun, fileAtStart, fileAtKill>>
    /\ UNCHANGED notOrchVars

\* The orchestrator (and its pool) is killed.  text is what the write in
\* progress, if any, got into the file.
Killed(file) ==
    /\ kills < MaxKills
    /\ kills' = kills + 1
    /\ outFile' = file
    /\ fileAtKill' = file
    /\ pc' = "idle"
    /\ lastRun' = "killed"
    /\ tasks' = <<>>
    /\ inFlight' = {}
    /\ channel' = <<>>
    /\ UNCHANGED <<dir, cpu, num_processes_arg, processed_files, pgn_files,
                   num_processes, results, runs, prevRun, fileAtStart>>
    /\ UNCHANGED notOrchVars

\* killed between two writes
Kill ==
    /\ pc \in {"header", "pool", "collect"}
    /\ Killed(outFile)

\* killed in lines 483-488: the file is created, and none or a part of the
\* header is in it
KillInHeader ==
    /\ pc = "header"
    /\ outFile = NoneV
    /\ \E n \in 0 .. Len(HeaderLine) - 1 : Killed(Some(SubSeq(HeaderLine, 1, n)))

\* killed in lines 498-506: a part of the row is in the file
KillInAppend ==
    /\ pc = "collect"
    /\ channel # <<>>
    /\ \E n \in 1 .. Len(Row(Head(channel))) - 1 :
          Killed(AppendText(outFile, SubSeq(Row(Head(channel)), 1, n)))

Next ==
    \/ StartRun \/ WriteHeader \/ CreatePool \/ WorkerTake \/ WorkerDone
    \/ Collect \/ FinishRun \/ Kill \/ KillInHeader \/ KillInAppend

(***************************************************************************)
(* SpecExport: export_games (chesscom_pgn_export.py, lines 90-173).  A     *)
(* fetched game has the two usernames, its end_time in seconds and its     *)
(* record (pgn), "" when it has none.  A filename is a sequence of tokens: *)
(* the date to the minute, "_", the characters of White's name, "_vs_",    *)
(* those of Black's name, ".pgn".                                          *)
(***************************************************************************)
InvalidChars == {"<", ">", ":", "\"", "/", "\\", "|", "?", "*"}

\* sanitize_filename, lines 57-70
sanitize_filename(text) ==
    [k \in DOMAIN text |-> IF text[k] \in InvalidChars THEN "_" ELSE text[k]]

\* lines 137-138: datetime.fromtimestamp(end_time).strftime("%Y-%m-%d_%H%M"),
\* the time cut to the minute
date_str(end_time) == ToString(end_time \div 60)

\* lines 132-143
filename_of(game) ==
    sanitize_filename(<<date_str(game.end_time), "_">> \o game.white
                      \o <<"_vs_">> \o game.black \o <<".pgn">>)

Usernames == { <<"a">>, <<"b">>, <<"*">> }

EndTimes == {0, 59, 60}

Pgns == {"", "g1", "g2"}

FetchedGames ==
    [white : {<<"a">>}, black : Usernames \ {<<"a">>}, end_time : EndTimes,
     pgn : Pgns]

RECURSIVE SeqsUpTo(_, _)
SeqsUpTo(S, n) ==
    IF n = 0 THEN {<<>>}
    ELSE LET shorter == SeqsUpTo(S, n - 1)
         IN  shorter \cup { Append(q, x) : q \in shorter, x \in S }

\* get_existing_files, lines 73-87 (the directory holds *.pgn files only)
get_existing_files(directory) == DOMAIN directory

\* open(file_path, "w"); f.write(pgn): the file is created or replaced
write_file(directory, name, text) ==
    [n \in DOMAIN directory \cup {name} |->
        IF n = name THEN text ELSE directory[n]]

ExportIdle ==
    /\ xdir = <<>>
    /\ existing_files = {}
    /\ xgames = <<>>
    /\ xpc = "idle"
    /\ xruns = 0

\* the directory is empty, or holds one file an earlier export left
ExportInit ==
    /\ xdir \in { <<>> } \cup
          { write_file(<<>>, filename_of(game), "old") :
                game \in {g \in FetchedGames : g.end_time = 0 /\ g.pgn = "g1"} }
    /\ existing_files = {}
    /\ xgames = <<>>
    /\ xpc = "idle"
    /\ xruns = 0

\* lines 100-126: the directory is listed once, then the archives are fetched;
\* an archive that cannot be fetched contributes no game
ExportStart ==
    /\ xpc = "idle"
    /\ xruns < MaxExportRuns
    /\ xruns' = xruns + 1
    /\ existing_files' = get_existing_files(xdir)
    /\ xgames' \in SeqsUpTo(FetchedGames, MaxFetched)
    /\ xpc' = "loop"
    /\ UNCHANGED xdir
    /\ UNCHANGED notExportVars

\* lines 127-129: a game without a record is passed over
ExportSkipEmpty ==
    /\ xpc = "loop"
    /\ xgames # <<>>
    /\ Head(xgames).pgn = ""
    /\ xgames' = Tail(xgames)
    /\ UNCHANGED <<xdir, existing_files, xpc, xruns>>
    /\ UNCHANGED notExportVars

\* lines 145-148: the name was in the directory when the run started
ExportSkipExisting ==
    /\ xpc = "loop"
    /\ xgames # <<>>
    /\ Head(xgames).pgn # ""
    /\ filename_of(Head(xgames)) \in existing_files
    /\ xgames' = Tail(xgames)
    /\ UNCHANGED <<xdir, existing_files, xpc, xruns>>
    /\ UNCHANGED notExportVars

\* lines 150-155: the record is written under the game's filename
ExportWrite ==
    /\ xpc = "loop"
    /\ xgames # <<>>
    /\ Head(xgames).pgn # ""
    /\ filename_of(Head(xgames)) \notin existing_files
    /\ xdir' = write_file(xdir, filename_of(Head(xgames)), Head(xgames).pgn)
    /\ xgames' = Tail(xgames)
    /\ UNCHANGED <<existing_files, xpc, xruns>>
    /\ UNCHANGED notExportVars

\* lines 165-168: every game has been gone through
ExportDone ==
    /\ xpc = "loop"
    /\ xgames = <<>>
    /\ xpc' = "idle"
    /\ UNCHANGED <<xdir, existing_files, xgames, xruns>>
    /\ UNCHANGED notExportVars

ExportNext ==
    \/ ExportStart \/ ExportSkipEmpty \/ ExportSkipExisting \/ ExportWrite
    \/ ExportDone

InitPure == PureInit /\ GameIdle /\ OrchIdle /\ ExportIdle
InitGame == GameInit /\ PureIdle /\ OrchIdle /\ ExportIdle
Init     == OrchInit /\ PureIdle /\ GameIdle /\ ExportIdle
InitExport == ExportInit /\ PureIdle /\ GameIdle /\ OrchIdle

SpecPure == InitPure /\ [][PureNext]_vars

SpecGame == InitGame /\ [][GameNext]_vars

Spec == Init /\ [][Next]_vars

SpecExport == InitExport /\ [][ExportNext]_vars

(***************************************************************************)
(* Properties.                                                             *)
(***************************************************************************)
Lines(file) == IF file = NoneV THEN <<>> ELSE SplitLines(Get(file))

\* the lines of the file that are the complete row of a result for name
IsRowOf(line, name) == \E stats \in analyse_outcomes(name) : line = Row(stats)

RowCount(file, name) ==
    Cardinality({ k \in DOMAIN Lines(file) : IsRowOf(Lines(file)[k], name) })

\* column 1 of every line but the header line
DataNames(file) ==
    LET data == SelectSeq(Lines(file), LAMBDA line : line # HeaderLine)
    IN  [k \in DOMAIN data |-> Strip(BeforeTab(data[k]))]

NoDuplicateNames(file) ==
    \A j, k \in DOMAIN DataNames(file) :
        (j # k /\ DataNames(file)[j] # <<>>) => DataNames(file)[j] # DataNames(file)[k]

RECURSIVE AppendRows(_, _)
AppendRows(file, stats_list) ==
    IF stats_list = <<>> THEN file
    ELSE AppendRows(AppendText(file, Row(Head(stats_list))), Tail(stats_list))

RanToCompletion(status) == status \in {"complete", "nothing_to_do", "no_files"}

\* C1 (as stated): once a run has run to completion, the next run over the
\* same input directory and output file appends no row and leaves the file
\* as it found it, and no filename is in column 1 of two data rows.
C1_Resumable ==
    RanToCompletion(prevRun) =>
        /\ outFile = fileAtStart
        /\ NoDuplicateNames(outFile)

\* C2 (as stated): when a killed run is followed by a run that completes,
\* every row complete at the kill is still a line of the file, only the
\* games without a complete row at the kill were analysed again, and every
\* file of the input directory has exactly one row.
C2_CrashRecovery ==
    (prevRun = "killed" /\ RanToCompletion(lastRun)) =>
        /\ \A k \in DOMAIN Lines(fileAtKill) :
              (\E name \in dir : IsRowOf(Lines(fileAtKill)[k], name))
                  => \E j \in DOMAIN Lines(outFile) :
                        Lines(outFile)[j] = Lines(fileAtKill)[k]
        /\ { pgn_files[k] : k \in DOMAIN pgn_files }
              = { name \in dir : RowCount(fileAtKill, name) = 0 }
        /\ \A name \in dir : RowCount(outFile, name) = 1

\* C3 (as stated): a run that is not killed ends complete, with exactly
\* one row appended for each input outside the Resume Set and none for an
\* input in it.
C3_BatchCompletes ==
    (lastRun \in {"complete", "crashed"}) =>
        /\ lastRun = "complete"
        /\ Len(results) = Len(pgn_files)
        /\ \A name \in dir :
              Cardinality({ k \in DOMAIN results : results[k].filename = name })
                 = IF <<name>> \in processed_files THEN 0 ELSE 1
        /\ outFile = AppendRows(IF fileAtStart = NoneV THEN Some(HeaderLine)
                                                       ELSE fileAtStart, results)

NumbersZero(stats) ==
    /\ stats.white_elo = 0 /\ stats.black_elo = 0 /\ stats.result = 0
    /\ IsZeroAccuracy(stats.white_accuracy) /\ IsZeroAccuracy(stats.black_accuracy)
    /\ stats.white_best_moves = 0 /\ stats.white_good_moves = 0
    /\ stats.white_inaccuracies = 0 /\ stats.white_mistakes = 0
    /\ stats.white_blunders = 0 /\ stats.white_book_moves = 0
    /\ stats.white_total_moves = 0
    /\ stats.black_best_moves = 0 /\ stats.black_good_moves = 0
    /\ stats.black_inaccuracies = 0 /\ stats.black_mistakes = 0
    /\ stats.black_blunders = 0 /\ stats.black_book_moves = 0
    /\ stats.black_total_moves = 0

WorkerGoesOn ==
    /\ raised => gpc \in {"returned", "idle"}
    /\ nReturned = IF gpc = "idle" THEN nTaken ELSE nTaken - 1
    /\ (gpc = "idle" /\ wTasks = <<>>) => nReturned = MaxGames

C5_GuaranteedRelease ==
    gpc = "returned" =>
        /\ engine # "None" => (engine = "quit" /\ quit_calls = 1)
        /\ book_reader # "None" => book_reader = "closed"

\* C6: in a batch only the orchestrator changes the output file: it writes
\* the header before any worker runs, and then appends the complete row of
\* one collected result at a time; a step of a worker leaves the file alone.
\* (A kill of the process is no write of the program: it may cut the append
\* in progress short.)
C6_SingleWriter ==
    [][ (outFile' # outFile /\ lastRun' # "killed") =>
           \/ /\ pc = "header"
              /\ outFile = NoneV
              /\ outFile' = Some(HeaderLine)
              /\ inFlight = {} /\ channel = <<>>
           \/ /\ pc = "collect"
              /\ channel # <<>>
              /\ outFile' = AppendText(outFile, Row(Head(channel)))
              /\ results' = Append(results, Head(channel))
              /\ channel' = Tail(channel)
              /\ inFlight' = inFlight /\ tasks' = tasks
              /\ \E k \in DOMAIN pgn_files : pgn_files[k] = Head(channel).filename
              /\ Head(channel).filename \notin inFlight
       ]_vars

\* C6 witness: two workers; the row of the second input is in the file
\* while the first input is still being analysed
C6_Witness ==
    /\ pc = "collect"
    /\ results # <<>>
    /\ results[1].filename = NameList[2]
    /\ RowCount(outFile, NameList[2]) = 1
    /\ NameList[1] \in inFlight

WhiteMoves(plies) == (plies + 1) \div 2
BlackMoves(plies) == plies \div 2

SumCounts(c) ==
    c["best"] + c["good"] + c["inaccuracy"] + c["mistake"] + c["blunder"]

\* C7: after every ply of the move loop, and in the GameStats of a completed
\* game, each colour's six counters add up to the moves it has played, which
\* is its total_moves.
C7_CountInvariant ==
    /\ gpc = "loop" =>
          /\ SumCounts(white_classifications) + white_book_moves
                = WhiteMoves(move_number)
          /\ SumCounts(black_classifications) + black_book_moves
                = BlackMoves(move_number)
          /\ Len(white_eval_pairs) + white_book_moves = WhiteMoves(move_number)
          /\ Len(black_eval_pairs) + black_book_moves = BlackMoves(move_number)
    /\ (gpc = "returned" /\ engine = "quit") =>
          LET stats == Get(ret)
          IN  /\ stats.white_best_moves + stats.white_good_moves
                   + stats.white_inaccuracies + stats.white_mistakes
                   + stats.white_blunders + stats.white_book_moves
                   = stats.white_total_moves
              /\ stats.black_best_moves + stats.black_good_moves
                   + stats.black_inaccuracies + stats.black_mistakes
                   + stats.black_blunders + stats.black_book_moves
                   = stats.black_total_moves
              /\ stats.white_total_moves = WhiteMoves(gameLen)
              /\ stats.black_total_moves = BlackMoves(gameLen)

\* C7 witness: a completed game with a book move of one colour and an
\* engine-judged move of the other
C7_Witness ==
    /\ gpc = "returned"
    /\ engine = "quit"
    /\ Get(ret).black_book_moves = 1
    /\ Get(ret).white_total_moves = 1
    /\ Get(ret).white_book_moves = 0

ClaimedClass(loss) ==
    CASE loss \in 0 .. 10   -> "best"
      [] loss \in 11 .. 25  -> "good"
      [] loss \in 26 .. 50  -> "inaccuracy"
      [] loss \in 51 .. 100 -> "mistake"
      [] loss >= 101        -> "blunder"

ClaimedPoints ==
    (10 :> "best") @@ (11 :> "good") @@ (25 :> "good") @@ (26 :> "inaccuracy")
    @@ (50 :> "inaccuracy") @@ (51 :> "mistake") @@ (100 :> "mistake")
    @@ (101 :> "blunder")

\* C8: classify_move on a loss >= 0: <= 10 best, 11..25 good, 26..50
\* inaccuracy, 51..100 mistake, >= 101 blunder.
C8_Classify ==
    (pfn = "classify_move" /\ pres # NoneV) =>
        /\ Get(pres) = ClaimedClass(parg)
        /\ parg \in DOMAIN ClaimedPoints => Get(pres) = ClaimedPoints[parg]

\* C8 witness: the first loss that is a blunder has been classified
C8_Witness == pfn = "classify_move" /\ parg = 101 /\ pres = Some("blunder")

WhiteRelative(pov) == IF pov.turn = "white" THEN pov.relative.v ELSE -pov.relative.v

C10_PoolFloor ==
    (pc = "pool" /\ num_processes_arg = NoneV) => num_processes >= 1

\* whether a line of the file is the complete row of some game
HasDataRow(file) ==
    \E k \in DOMAIN Lines(file) : \E name \in FileNames :
        IsRowOf(Lines(file)[k], name)

HeaderCount(file) ==
    Cardinality({ k \in DOMAIN Lines(file) : Lines(file)[k] = HeaderLine })

\* C11 (as stated): whenever the output file holds a data row, its first line
\* is the header and the header is a line of the file exactly once.
C11_HeaderOnce ==
    HasDataRow(outFile) =>
        /\ Lines(outFile)[1] = HeaderLine
        /\ HeaderCount(outFile) = 1

\* C12 (as stated): a book path that cannot be used, missing or unreadable,
\* fails no game: analyse_game goes past the opening of the book to the start
\* of the engine, without a book reader and without an error.
C12_BookErrorDemoted ==
    [][ (gpc = "book" /\ book_path \in {"missing", "unreadable"}) =>
            /\ gpc' = "engine"
            /\ book_reader' = "None"
            /\ ~raised'
            /\ ret' = NoneV
      ]_vars

\* C13 (as stated): whenever analyse_game returns a placeholder, the game's
\* name has been reported on the diagnostic stream.
C13_NoSilentFailure ==
    (gpc = "returned" /\ ret = Some(Placeholder(gname))) => gname \in stderr

\* C14 (as stated): calculate_move_accuracy(w, w) is exactly 100.0 for
\* every win percentage w.
C14_NoLossIsPerfect ==
    (pfn = "calculate_move_accuracy" /\ pres # NoneV /\ parg[1] = parg[2]) =>
        Get(pres) = 1000000

\* C15 (as stated): each colour's rating is the integer of that colour's own
\* header when it parses as one and 0 when it does not, whatever the other
\* colour's header is.
C15_Ratings ==
    (pfn = "parse_headers" /\ pres # NoneV) =>
        LET w == py_int(headers_get(parg, "WhiteElo", "0"))
            b == py_int(headers_get(parg, "BlackElo", "0"))
        IN  /\ Get(pres).white_elo = IF w = NoneV THEN 0 ELSE Get(w)
            /\ Get(pres).black_elo = IF b = NoneV THEN 0 ELSE Get(b)

TimeClasses == {"bullet", "blitz", "rapid", "classical", "daily", "unknown"}

\* the TimeControl text up to its "+": a numeral alone, or nothing usable
ClaimedBase(tc) ==
    IF tc[1] \in DOMAIN IntLiterals /\ (Len(tc) = 1 \/ tc[2] = "+")
    THEN Some(IntLiterals[tc[1]]) ELSE NoneV

ClaimedTimeClass(header) ==
    IF header = NoneV THEN "unknown"
    ELSE IF Get(header) = <<>> \/ Get(header) = <<"-">> THEN "unknown"
    ELSE IF \E k \in DOMAIN Get(header) : Get(header)[k] = "/" THEN "daily"
    ELSE LET base == ClaimedBase(Get(header))
         IN  CASE base = NoneV -> "unknown"
               [] base # NoneV /\ Get(base) < 180 -> "bullet"
               [] base # NoneV /\ Get(base) >= 180 /\ Get(base) <= 300 -> "blitz"
               [] base # NoneV /\ Get(base) > 300 /\ Get(base) <= 3600 -> "rapid"
               [] base # NoneV /\ Get(base) > 3600 -> "classical"

\* C16: the time-control class is daily when the TimeControl text has a "/";
\* otherwise bullet, blitz, rapid or classical by the base time before the
\* "+" (< 180, 180..300, 301..3600, > 3600); unknown when the text is absent,
\* empty, "-" or its base is no integer.  It is always one of the six.
C16_TimeControlClass ==
    (pfn = "parse_headers" /\ pres # NoneV) =>
        /\ Get(pres).time_control = ClaimedTimeClass(parg.TimeControl)
        /\ Get(pres).time_control \in TimeClasses

\* C16 witness: a base time of exactly five minutes has been classed blitz
C16_Witness ==
    /\ pfn = "parse_headers"
    /\ parg.TimeControl = Some(<<"300">>)
    /\ pres # NoneV
    /\ Get(pres).time_control = "blitz"

\* C17: a run over a directory that is missing or without game-record files,
\* or whose files are all in the Resume Set, has returned at once: no worker
\* was started, no result collected, and the output file is as the run
\* found it (absent if it was absent).
C17_EmptyWorkSet ==
    (runs > 0 /\ \A name \in dir : <<name>> \in load_processed_files(fileAtStart)) =>
        /\ pc = "idle"
        /\ lastRun = IF dir = {} THEN "no_files" ELSE "nothing_to_do"
        /\ outFile = fileAtStart
        /\ tasks = <<>> /\ inFlight = {} /\ channel = <<>> /\ results = <<>>

\* C17 witness: the run after a complete run over two files found nothing
\* to do
C17_Witness ==
    /\ lastRun = "nothing_to_do"
    /\ prevRun = "complete"
    /\ dir = {NameList[1], NameList[2]}
    /\ outFile # NoneV
    /\ outFile = fileAtStart

\* C18 (as stated): export_games never overwrites: a file of the output
\* directory stays in it with the text it has.
C18_NeverOverwrites ==
    [][ \A name \in DOMAIN xdir :
            name \in DOMAIN xdir' /\ xdir'[name] = xdir[name] ]_vars

\* An eval pair holds the two evaluations from the mover's side (lines 360
\* and 364), so the mover's loss is the drop from the first to the second.
PairLoss(pair) == IF pair[1] - pair[2] > 0 THEN pair[1] - pair[2] ELSE 0

CountOf(pairs, class) ==
    Cardinality({ k \in DOMAIN pairs : ClaimedClass(PairLoss(pairs[k])) = class })

\* C19: the loss of an engine-judged move is max(0, evalBefore - evalAfter)
\* for White and max(0, evalAfter - evalBefore) for Black, never negative,
\* and the move is counted under the class of that loss for the mover only:
\* each colour's counters are the classes of its own moves' losses.  The
\* evaluations 20, 15 of a White move give loss 5, best; 10, 5 of a Black
\* move give loss 0, best.
C19_Loss ==
    /\ \A class \in Classes :
          /\ white_classifications[class] = CountOf(white_eval_pairs, class)
          /\ black_classifications[class] = CountOf(black_eval_pairs, class)
    /\ eval_loss_of(TRUE, 20, 15) = 5 /\ classify_move(5) = "best"
    /\ eval_loss_of(FALSE, 10, 5) = 0 /\ classify_move(0) = "best"
    /\ \A is_white_move \in BOOLEAN, before, after \in {-40, -15, 0, 20, 9950} :
          eval_loss_of(is_white_move, before, after) >= 0

\* C19 witness: a game in which each colour made one engine-judged move, and
\* Black's lost more than a best move may
C19_Witness ==
    /\ gpc = "returned"
    /\ engine = "quit"
    /\ Len(white_eval_pairs) = 1
    /\ Len(black_eval_pairs) = 1
    /\ black_classifications["best"] = 0

\* C20: a ply whose move is a book move changes nothing but the mover's
\* book-move counter, which grows by one, and the position (here the move
\* number): the engine is not asked, no eval pair is appended, and the
\* classification counters of both colours and the other colour's book
\* counter stay as they are.  It is so at every ply, also after a move that
\* was not a book move.
C20_BookShortCircuit ==
    [][ (move_number' = move_number + 1 /\ in_book') =>
            LET is_white_move == move_number' % 2 = 1
            IN  /\ white_book_moves' =
                      white_book_moves + (IF is_white_move THEN 1 ELSE 0)
                /\ black_book_moves' =
                      black_book_moves + (IF is_white_move THEN 0 ELSE 1)
                /\ analyse_calls' = analyse_calls
                /\ white_eval_pairs' = white_eval_pairs
                /\ black_eval_pairs' = black_eval_pairs
                /\ white_classifications' = white_classifications
                /\ black_classifications' = black_classifications
                /\ UNCHANGED <<gpc, gname, hdr, gameLen, book_reader, engine,
                               quit_calls, ret, raised, stderr>>
      ]_vars

\* C20 witness: White's first move was judged by the engine, and Black's
\* reply was then found in the book
C20_Witness ==
    /\ gpc = "loop"
    /\ move_number = 2
    /\ in_book
    /\ Len(white_eval_pairs) = 1
    /\ analyse_calls = 2
    /\ black_book_moves = 1

\* the names in column 1 of the complete rows of the file
CompleteRowNames(file) ==
    { <<name>> : name \in { n \in FileNames : RowCount(file, n) > 0 } }

\* C21 (as stated): whatever the output file holds, the Resume Set read from
\* it has the filename of every complete data row and nothing that is not
\* column 1 of a line other than the header; it is empty for an absent file;
\* and while a run goes on, its Resume Set is the one read from the file as
\* the run found it.
C21_ResumeSet ==
    /\ CompleteRowNames(outFile) \subseteq load_processed_files(outFile)
    /\ load_processed_files(outFile)
          \subseteq { DataNames(outFile)[k] : k \in DOMAIN DataNames(outFile) }
    /\ load_processed_files(NoneV) = {}
    /\ pc # "idle" => processed_files = load_processed_files(fileAtStart)

\* Whether the ply just played was judged by the engine: lines 339-365 ran
\* to the end for the move numbered move_number.
EngineJudged == gpc = "loop" /\ move_number > 0 /\ ~in_book

\* eval_before and eval_after of that ply, from White's side, as lines 360
\* and 364 stored them
LastEvalBefore ==
    IF move_number % 2 = 1 THEN white_eval_pairs[Len(white_eval_pairs)][1]
    ELSE -black_eval_pairs[Len(black_eval_pairs)][1]

LastEvalAfter ==
    IF move_number % 2 = 1 THEN white_eval_pairs[Len(white_eval_pairs)][2]
    ELSE -black_eval_pairs[Len(black_eval_pairs)][2]

SameScore ==
    white(Get(info_before).score) = white(Get(info_after).score)

\* C23 (as stated): an engine-judged move after which the engine's score
\* from White's side is what it was before the move, the same centipawns or
\* a mate for the same side in the same number of moves, has loss 0 and
\* adds one to the mover's best moves, whoever the mover is.
C23_SameScoreNoLoss ==
    [][ (move_number' = move_number + 1 /\ EngineJudged' /\ SameScore') =>
            IF move_number' % 2 = 1
            THEN /\ PairLoss(white_eval_pairs'[Len(white_eval_pairs')]) = 0
                 /\ white_classifications' =
                       [white_classifications EXCEPT !["best"] = @ + 1]
            ELSE /\ PairLoss(black_eval_pairs'[Len(black_eval_pairs')]) = 0
                 /\ black_classifications' =
                       [black_classifications EXCEPT !["best"] = @ + 1]
      ]_vars

\* whether a line of the file is the placeholder row of name, complete
HasPlaceholderRow(file, name) ==
    \E k \in DOMAIN Lines(file) : Lines(file)[k] = Row(Placeholder(name))

\* C24 (as stated): a game whose placeholder row is in the output file when
\* a run starts is in the Resume Set of that run and is not among the games
\* the run dispatches, whatever its analysis would give now.
C24_FailedNeverRetried ==
    \A name \in FileNames :
        HasPlaceholderRow(fileAtStart, name) =>
            /\ runs > 0 => <<name>> \in load_processed_files(fileAtStart)
            /\ \A k \in DOMAIN pgn_files : pgn_files[k] # name

====
